---- MODULE Spec2Model ----
(***************************************************************************)
(* kyoteiAI: feature building (features.py, predict.py), model feature     *)
(* alignment and trifecta permutation scoring (predict.py).                *)
(*                                                                         *)
(* The operations are pure functions over pandas frames.  Each one is an   *)
(* operator below; a specification draws the arguments of one call in its  *)
(* initial state and its actions perform the call.                         *)
(*   Spec       one call of predict.predict_trifecta                       *)
(*   SpecAlign  one call of predict._align_features_to_model               *)
(*   SpecFeat   one call of features.build_features or                     *)
(*              predict.build_features                                     *)
(*   SpecTwice  two calls of features.build_features, same arguments       *)
(*   SpecRows   SpecFeat and Spec together                                 *)
(*   SpecApp    one run of the script app.py                               *)
(*   SpecBuildApp  SpecFeat and SpecApp together                           *)
(*   SpecCalls  SpecFeat, SpecAlign and Spec together                      *)
(*                                                                         *)
(* The Japanese column labels of the source are written in Latin letters:  *)
(* tenji_taimu, tenji_ST, chiruto, taiju_zogen, teiban, senshumei, tei.    *)
(***************************************************************************)
EXTENDS Integers, Sequences, FiniteSets, TLC

VARIABLES
  op,        \* what runs: "predict_trifecta", "align", "build_features", "app"
  pc,        \* position of the call: "call", "done" (returned), "raised";
             \* in an app run, the stage reached
  df_feat,   \* predict_trifecta: the df_feat argument (a frame)
  pred,      \* predict_trifecta: what the three models' predict returns
  top_n,     \* predict_trifecta: the top_n argument
  df_pred,   \* predict_trifecta: the returned frame, a sequence of rows
  err,       \* the exception raised, "" when none
  model,     \* _align_features_to_model: the attributes of the model argument
  X,         \* _align_features_to_model: the X argument (a frame)
  X2,        \* _align_features_to_model: the returned frame
  builder,   \* build_features: the module called, "features" or "predict"
  df_raw,    \* build_features: the df_raw argument (a frame)
  stadium,   \* features.build_features: the stadium argument
  race_no,   \* features.build_features: the race_no argument
  weather,   \* predict.build_features: the weather argument
  files,     \* feature_names.csv and models/feature_names.csv on disk
  feat,      \* build_features: the returned frame
  earlier,   \* build_features: the frame an earlier call of the run returned
  predict_py,\* app.py: the names the module predict defines
  models,    \* app.py: for model1, model2, model3, whether it is not None
  ui         \* app.py: the stages invoked and the messages shown, in order

scoreVars == <<df_feat, pred, top_n, df_pred>>
alignVars == <<model, X, X2>>
featVars == <<builder, df_raw, stadium, race_no, weather, files, feat, earlier>>
appVars == <<predict_py, models, ui>>
vars == <<op, pc, err, scoreVars, alignVars, featVars, appVars>>

(***************************************************************************)
(* Bounds                                                                  *)
(***************************************************************************)
MaxK == 3        \* most entrant rows in a frame
MaxTopN == 7     \* largest top_n drawn
MaxNames == 3    \* longest feature-name list a model declares
MaxCols == 2     \* most columns of a frame given to the aligner
MaxRows == 3     \* most entrant rows of a df_raw given to build_features
Prec == 3        \* bits of the significand of a float (float64 has 53)

(***************************************************************************)
(* float64 values: a rational n/d, or NaN, +inf, -inf                      *)
(***************************************************************************)
RECURSIVE GCD(_, _)
GCD(a, b) == IF b = 0 THEN a ELSE GCD(b, a % b)

Abs(x) == IF x < 0 THEN -x ELSE x

Fin(n, d) ==
  LET g == GCD(Abs(n), d)
  IN  [k |-> "fin", n |-> n \div g, d |-> d \div g]

NaN == [k |-> "nan", n |-> 0, d |-> 1]
PInf == [k |-> "pinf", n |-> 0, d |-> 1]
NInf == [k |-> "ninf", n |-> 0, d |-> 1]

IsNaN(x) == x.k = "nan"
IsFinite(x) == x.k = "fin"
Sign(x) ==
  CASE x.k = "pinf" -> 1
    [] x.k = "ninf" -> -1
    [] x.k = "fin" -> (IF x.n > 0 THEN 1 ELSE IF x.n < 0 THEN -1 ELSE 0)
    [] OTHER -> 0

\* a < b for two values that are not NaN
FLt(a, b) ==
  CASE a.k = "ninf" -> b.k # "ninf"
    [] a.k = "pinf" -> FALSE
    [] b.k = "ninf" -> FALSE
    [] b.k = "pinf" -> TRUE
    [] OTHER -> a.n * b.d < b.n * a.d

FLe(a, b) == a = b \/ FLt(a, b)

FMul(a, b) ==
  IF IsNaN(a) \/ IsNaN(b) THEN NaN
  ELSE IF IsFinite(a) /\ IsFinite(b) THEN Fin(a.n * b.n, a.d * b.d)
  ELSE IF Sign(a) * Sign(b) = 0 THEN NaN
  ELSE IF Sign(a) * Sign(b) > 0 THEN PInf ELSE NInf

Zero == Fin(0, 1)
One == Fin(1, 1)

FNeg(a) ==
  CASE a.k = "pinf" -> NInf
    [] a.k = "ninf" -> PInf
    [] a.k = "fin" -> Fin(-a.n, a.d)
    [] OTHER -> a

FAdd(a, b) ==
  IF IsNaN(a) \/ IsNaN(b) THEN NaN
  ELSE IF IsFinite(a) /\ IsFinite(b) THEN Fin(a.n * b.d + b.n * a.d, a.d * b.d)
  ELSE IF IsFinite(a) THEN b
  ELSE IF IsFinite(b) \/ a = b THEN a
  ELSE NaN

FSub(a, b) == FAdd(a, FNeg(b))

\* a / c for a count c > 0
FDivInt(a, c) == IF IsFinite(a) THEN Fin(a.n, a.d * c) ELSE a

RECURSIVE TwoTo(_)
TwoTo(i) == IF i = 0 THEN 1 ELSE 2 * TwoTo(i - 1)

\* the binary exponents e looked at: 2^e <= |x| < 2^(e+1)
Exponents == -12..12

\* the result of a float operation: the exact value x rounded to the nearest
\* float of Prec significand bits, a tie going to the even significand
FRound(x) ==
  IF ~IsFinite(x) \/ x.n = 0 THEN x
  ELSE LET a == Abs(x.n)
           Ge(e) == IF e >= 0 THEN TwoTo(e) * x.d <= a ELSE x.d <= a * TwoTo(-e)
           e == CHOOSE e \in Exponents : Ge(e) /\ ~Ge(e + 1)
           sh == e - Prec + 1
           qn == IF sh >= 0 THEN TwoTo(sh) ELSE 1
           qd == IF sh >= 0 THEN 1 ELSE TwoTo(-sh)
           f == (a * qd) \div (x.d * qn)
           rem == (a * qd) % (x.d * qn)
           up == 2 * rem > x.d * qn \/ (2 * rem = x.d * qn /\ f % 2 = 1)
       IN  Fin(Sign(x) * (IF up THEN f + 1 ELSE f) * qn, qd)

\* a cell holding text that does not parse as a number
Str == [k |-> "str", n |-> 0, d |-> 1]

(***************************************************************************)
(* pandas frames: the column labels in order, the number of rows, and the  *)
(* cells of each column                                                    *)
(***************************************************************************)
\* the cells are held as evaluated sequences, one per column label
Frame(cols, n, val) ==
  [n |-> n, cols |-> cols \o <<>>, val |-> [fc \in DOMAIN val |-> val[fc] \o <<>>] @@ <<>>]

Range(s) == {s[i] : i \in DOMAIN s}

HasCol(df, c) == c \in Range(df.cols)

\* DataFrame.empty: no rows or no columns
IsEmpty(df) == df.n = 0 \/ df.cols = <<>>

NoFrame == Frame(<<>>, 0, <<>>)

\* df[names]: the named columns in the order of names
SelectCols(df, names) ==
  Frame(names, df.n, [sel \in Range(names) |-> df.val[sel]])

\* df[c] = v: replaces column c in place, or appends it as the last column
SetCol(df, c, v) ==
  Frame(IF HasCol(df, c) THEN df.cols ELSE Append(df.cols, c), df.n,
        [sc \in Range(df.cols) \cup {c} |-> IF sc = c THEN v ELSE df.val[sc]])

\* df[c] = val[c] for every c of names, where no assignment reads a column
\* that another one of them writes
SetCols(df, names, val) ==
  Frame(df.cols \o SelectSeq(names, LAMBDA sn : ~HasCol(df, sn)), df.n,
        [sn \in Range(df.cols) \cup Range(names) |->
           IF sn \in Range(names) THEN val[sn] ELSE df.val[sn]])

\* the sequences over S of length n, repeats included
SeqsOfLen(S, n) == [1..n -> S]

\* Series.astype(int) on finite values: truncation toward zero
AsInt(x) == IF x.n >= 0 THEN x.n \div x.d ELSE -((-x.n) \div x.d)

\* a column holding the scalar x in every row
Broadcast(df, x) == [r \in 1..df.n |-> x]

(***************************************************************************)
(* predict.py: _get_model_feature_names, _align_features_to_model          *)
(***************************************************************************)
\* A model object, as far as the attribute probing sees it:
\*   fni  feature_names_in_     ("has" tells whether the attribute exists)
\*   fn_  feature_name_
\*   fn   feature_name: "absent", "attribute" (exists, not callable),
\*        "raises" (callable, raises), "returns" (callable, returns fn_ret)
ModelObj(has_fni, fni, has_fn_, fn_, fn, fn_ret) ==
  [has_fni |-> has_fni, fni |-> fni, has_fn_ |-> has_fn_, fn_ |-> fn_,
   fn |-> fn, fn_ret |-> fn_ret]

NoModel == ModelObj(FALSE, <<>>, FALSE, <<>>, "absent", <<>>)

\* a returned list, or None
Some(names) == [none |-> FALSE, names |-> names]
None == [none |-> TRUE, names |-> <<>>]

get_model_feature_names(m) ==
  IF m.has_fni THEN Some(m.fni)
  ELSE IF m.has_fn_ THEN Some(m.fn_)
  ELSE IF m.fn = "returns" THEN Some(m.fn_ret)
  ELSE None

\* "if not names": None and the empty list alike
Falsy(names) == names.none \/ names.names = <<>>

\* for c in names: if c not in X2.columns: X2[c] = 0.0
RECURSIVE AddMissing(_, _, _, _)
AddMissing(df, names, i, fill) ==
  IF i > Len(names) THEN df
  ELSE AddMissing(IF HasCol(df, names[i]) THEN df
                  ELSE SetCol(df, names[i], Broadcast(df, fill)),
                  names, i + 1, fill)

\* align_features_to_model that appends the missing columns and drops nothing
align_features_to_model_KeepAll(m, x) ==
  LET names == get_model_feature_names(m)
  IN  IF Falsy(names) THEN x ELSE AddMissing(x, names.names, 1, Zero)

\* align_features_to_model that aligns even without a declared list
align_features_to_model_AlwaysSelect(m, x) ==
  LET names == get_model_feature_names(m)
  IN  SelectCols(AddMissing(x, names.names, 1, Zero), names.names)

align_features_to_model(m, x) ==
  LET names == get_model_feature_names(m)
  IN  IF Falsy(names) THEN x
      ELSE SelectCols(AddMissing(x, names.names, 1, Zero), names.names)

\* align_X_after with X2 = X in place of X2 = X.copy(): the assignments
\* X2[c] = 0.0 reach the caller's frame
align_X_after_NoCopy(m, x) ==
  LET names == get_model_feature_names(m)
  IN  IF Falsy(names) THEN x ELSE AddMissing(x, names.names, 1, Zero)

\* the caller's X after _align_features_to_model(m, X) returned: without
\* names X is returned as it is; else X2 = X.copy() is a frame of its own
\* that takes the assignments X2[c] = 0.0, and X2 = X2[names] rebinds X2
align_X_after(m, x) == x

(***************************************************************************)
(* pandas Series operations used by the feature builders                   *)
(***************************************************************************)
\* pd.to_numeric(s, errors="coerce"): text that does not parse becomes NaN
to_numeric(v) == [r \in DOMAIN v |-> IF v[r].k = "str" THEN NaN ELSE v[r]]

\* Series.fillna(x)
fillna(v, x) == [r \in DOMAIN v |-> IF IsNaN(v[r]) THEN x ELSE v[r]]

\* Series.replace([np.inf, -np.inf], np.nan)
replace_inf(v) ==
  [r \in DOMAIN v |-> IF v[r].k \in {"pinf", "ninf"} THEN NaN ELSE v[r]]

\* Series.rank(method="min", ascending=True): NaN keeps NaN and is not counted
rank_min(v) ==
  [r \in DOMAIN v |->
     IF IsNaN(v[r]) THEN NaN
     ELSE Fin(1 + Cardinality({q \in DOMAIN v : ~IsNaN(v[q]) /\ FLt(v[q], v[r])}), 1)]

\* the sum of the first i entries, NaN entries skipped, added in order and
\* rounded at every step
RECURSIVE SumTo(_, _)
SumTo(v, i) ==
  IF i = 0 THEN Zero
  ELSE IF IsNaN(v[i]) THEN SumTo(v, i - 1)
  ELSE FRound(FAdd(SumTo(v, i - 1), v[i]))

Count(v) == Cardinality({r \in DOMAIN v : ~IsNaN(v[r])})

\* Series.mean(skipna=True): NaN when no value is present
mean(v) ==
  IF Count(v) = 0 THEN NaN ELSE FRound(FDivInt(SumTo(v, Len(v)), Count(v)))

\* a column is of a number dtype unless it holds text (dtype object)
IsNumber(v) == \A r \in DOMAIN v : v[r].k # "str"

(***************************************************************************)
(* features.py                                                             *)
(***************************************************************************)
\* a candidate file: "absent" (missing or of size 0), "unreadable" (read_csv
\* raises) or "ok" with the entries of its feature column as strings
CsvFile(state, feats) == [state |-> state, feats |-> feats]

\* _load_feature_names: the first candidate with a non-empty filtered list
RECURSIVE load_feature_names(_)
load_feature_names(fs) ==
  IF fs = <<>> THEN None
  ELSE LET f == Head(fs)
           feats == SelectSeq(f.feats, LAMBDA x : x # "" /\ x # "nan")
       IN  IF f.state = "ok" /\ feats # <<>> THEN Some(feats)
           ELSE load_feature_names(Tail(fs))

rename_map ==
  << <<"tenji_taimu", "racer_exhibition_time">>,
     <<"tenji_ST", "racer_start_timing">>,
     <<"chiruto", "racer_tilt_adjustment">>,
     <<"taiju_zogen", "racer_weight_adjustment">>,
     <<"teiban", "racer_boat_number">>,
     <<"senshumei", "racer_name">> >>

\* for ja, en in rename_map.items(): if ja in x.columns and en not in
\* x.columns: x = x.rename(columns={ja: en}); a renamed column keeps its place
apply_rename_map(x) ==
  LET renamed(c) == \E p \in Range(rename_map) : p[1] = c /\ ~HasCol(x, p[2])
      en_of(c) == IF renamed(c) THEN (CHOOSE p \in Range(rename_map) : p[1] = c)[2] ELSE c
  IN  Frame([rp \in DOMAIN x.cols |-> en_of(x.cols[rp])], x.n,
            [rc \in {en_of(c) : c \in Range(x.cols)} |->
               x.val[CHOOSE c \in Range(x.cols) : en_of(c) = rc]])

\* _ensure_col for every name of cols
\* (the absent names are appended in the order of cols, as NaN columns)
ensure_cols(x, cols) ==
  Frame(x.cols \o SelectSeq(cols, LAMBDA ec : ~HasCol(x, ec)), x.n,
        [ec \in Range(x.cols) \cup Range(cols) |->
           IF HasCol(x, ec) THEN x.val[ec] ELSE Broadcast(x, NaN)])

basic_cols ==
  <<"racer_boat_number", "racer_number", "racer_exhibition_time",
    "racer_start_timing", "racer_tilt_adjustment", "racer_weight_adjustment">>

base_cols ==
  <<"racer_national_top_1_percent", "racer_national_top_2_percent",
    "racer_national_top_3_percent", "racer_local_top_1_percent",
    "racer_local_top_2_percent", "racer_local_top_3_percent",
    "racer_assigned_motor_top_2_percent", "racer_assigned_motor_top_3_percent",
    "racer_assigned_boat_top_2_percent", "racer_assigned_boat_top_3_percent",
    "racer_average_start_timing", "racer_flying_count", "racer_late_count",
    "racer_age", "racer_weight">>

wx_cols ==
  <<"wind", "wind_direction", "wave", "weather_code", "temperature",
    "water_temperature">>

num_like == basic_cols \o base_cols \o wx_cols

\* for c in cols: x[c] = _to_num(x[c])   (features.py: every c is a column;
\* predict.py: only the names that are columns)
to_num_cols(x, cols) ==
  Frame(x.cols, x.n,
        [tc \in Range(x.cols) |->
           IF tc \in Range(cols) THEN to_numeric(x.val[tc]) ELSE x.val[tc]])

\* add_diff(col, out_col)
add_diff(x, col) ==
  LET m == mean(x.val[col])
  IN  [r \in 1..x.n |-> FRound(FSub(x.val[col][r], IF IsNaN(m) THEN Zero ELSE m))]

\* x[a].fillna(0) + x[b].fillna(0) + ...
RECURSIVE SumCols(_, _, _)
SumCols(x, cols, r) ==
  IF cols = <<>> THEN Zero
  ELSE FAdd(fillna(x.val[Head(cols)], Zero)[r], SumCols(x, Tail(cols), r))

sum_cols(x, cols) == [r \in 1..x.n |-> SumCols(x, cols, r)]

\* feat.replace([np.inf, -np.inf], np.nan).fillna(0)
final_fill(df) ==
  Frame(df.cols, df.n, [c \in DOMAIN df.val |-> fillna(replace_inf(df.val[c]), Zero)])

\* the rows of build_features up to the rank features (lines 64-139)
features_derive_ranks(dfr, st, rn) ==
  LET x1 == apply_rename_map(dfr)
      x2 == ensure_cols(x1, basic_cols \o base_cols \o wx_cols)
      x3 == to_num_cols(x2, num_like)
  IN  SetCols(x3,
        <<"lane", "stadium", "race_no", "f_penalty", "l_penalty",
          "exh_time_rank", "exh_st_rank">>,
        [lane |-> x3.val["racer_boat_number"],
         stadium |-> Broadcast(x3, Fin(st, 1)),
         race_no |-> Broadcast(x3, Fin(rn, 1)),
         f_penalty |-> fillna(x3.val["racer_flying_count"], Zero),
         l_penalty |-> fillna(x3.val["racer_late_count"], Zero),
         exh_time_rank |-> rank_min(x3.val["racer_exhibition_time"]),
         exh_st_rank |-> rank_min(x3.val["racer_start_timing"])])

\* the difference and sum features (lines 141-167)
features_derive_sums(x) ==
  SetCols(x,
    <<"exh_time_diff", "exh_st_diff", "avg_st_diff", "weight_diff", "age_diff",
      "national_top3_sum", "local_top3_sum", "motor_top_sum", "boat_top_sum">>,
    [exh_time_diff |-> add_diff(x, "racer_exhibition_time"),
     exh_st_diff |-> add_diff(x, "racer_start_timing"),
     avg_st_diff |-> add_diff(x, "racer_average_start_timing"),
     weight_diff |-> add_diff(x, "racer_weight"),
     age_diff |-> add_diff(x, "racer_age"),
     national_top3_sum |->
       sum_cols(x, <<"racer_national_top_1_percent", "racer_national_top_2_percent",
                     "racer_national_top_3_percent">>),
     local_top3_sum |->
       sum_cols(x, <<"racer_local_top_1_percent", "racer_local_top_2_percent",
                     "racer_local_top_3_percent">>),
     motor_top_sum |->
       sum_cols(x, <<"racer_assigned_motor_top_2_percent",
                     "racer_assigned_motor_top_3_percent">>),
     boat_top_sum |->
       sum_cols(x, <<"racer_assigned_boat_top_2_percent",
                     "racer_assigned_boat_top_3_percent">>)])

\* the selection of the output columns (lines 169-181)
features_select(x, fs) ==
  LET feat_names == load_feature_names(fs)
      num == SelectCols(x, SelectSeq(x.cols, LAMBDA c : IsNumber(x.val[c])))
  IN  IF feat_names.none THEN num
      ELSE SelectCols(AddMissing(num, feat_names.names, 1, Zero), feat_names.names)

\* features.build_features without the final fill
features_build_features_NoFill(dfr, st, rn, fs) ==
  IF dfr.n = 0 THEN NoFrame
  ELSE features_select(features_derive_sums(features_derive_ranks(dfr, st, rn)), fs)

\* features.build_features(df_raw, stadium, race_no), reading the files fs
features_build_features(dfr, st, rn, fs) ==
  IF dfr.n = 0 THEN NoFrame
  ELSE final_fill(features_select(features_derive_sums(features_derive_ranks(dfr, st, rn)), fs))

\* the caller's df_raw after features.build_features returned: no rows
\* return at once; else x = df_raw.copy() is a frame of its own that takes
\* every assignment x[c] = ... that follows
features_df_raw_after(dfr) == dfr

(***************************************************************************)
(* predict.py: _safe_rank, _zscore, build_features                         *)
(***************************************************************************)
\* Series.max() (skipna): NaN when no value is present
max_of(v) ==
  IF Count(v) = 0 THEN NaN
  ELSE LET r == CHOOSE r \in DOMAIN v :
                  ~IsNaN(v[r]) /\ \A q \in DOMAIN v : IsNaN(v[q]) \/ FLe(v[q], v[r])
       IN  v[r]

\* _safe_rank(values, ascending=True)
safe_rank(values) ==
  LET v == to_numeric(values)
      fill == FAdd(max_of(v), Fin(9999, 1))
  IN  rank_min(fillna(v, fill))

\* sign(n) * sqrt(|n| / d): the quotient of a difference by a standard
\* deviation, kept by its sign and its square
Root(n, d) ==
  IF n = 0 THEN Zero
  ELSE [k |-> "root", n |-> n \div GCD(Abs(n), d), d |-> d \div GCD(Abs(n), d)]

\* the sum of the first i entries, added in order and rounded at every
\* step; a NaN entry makes the sum NaN
RECURSIVE SumAll(_, _)
SumAll(v, i) == IF i = 0 THEN Zero ELSE FRound(FAdd(SumAll(v, i - 1), v[i]))

\* Series.var() (ddof=1, skipna): NaN with fewer than 2 values present, and
\* NaN when a present value is infinite (inf - inf among the deviations);
\* the deviations are taken from the rounded mean
var_of(v) ==
  LET m == mean(v)
      present == SelectSeq(v, LAMBDA c : ~IsNaN(c))
      sq == [r \in DOMAIN present |->
               FRound(FMul(FRound(FSub(m, present[r])), FRound(FSub(m, present[r]))))]
  IN  IF Len(present) < 2 THEN NaN
      ELSE FRound(FDivInt(SumAll(sq, Len(sq)), Len(present) - 1))

\* _zscore(values); s = v.std() is the square root of var_of(v)
zscore(values) ==
  LET v == to_numeric(values)
      m == mean(v)
      s2 == var_of(v)
      diff == [r \in DOMAIN v |-> FRound(FSub(v[r], m))]
  IN  IF IsNaN(s2) \/ s2 = Zero THEN fillna(diff, Zero)
      ELSE fillna([r \in DOMAIN v |->
                     IF IsNaN(diff[r]) THEN NaN
                     ELSE Root(Sign(diff[r]) * diff[r].n * diff[r].n * s2.d,
                               diff[r].d * diff[r].d * s2.n)], Zero)

num_cols ==
  <<"racer_exhibition_time", "racer_start_timing", "racer_tilt_adjustment",
    "racer_weight", "racer_weight_adjustment",
    "racer_national_top_1_percent", "racer_national_top_2_percent",
    "racer_national_top_3_percent", "racer_local_top_1_percent",
    "racer_local_top_2_percent", "racer_local_top_3_percent",
    "racer_assigned_motor_top_2_percent", "racer_assigned_motor_top_3_percent",
    "racer_assigned_boat_top_2_percent", "racer_assigned_boat_top_3_percent",
    "racer_assigned_motor_number", "racer_assigned_boat_number",
    "racer_age", "racer_flying_count", "racer_late_count",
    "racer_average_start_timing", "racer_class_number", "racer_branch_number",
    "racer_birth_place_number">>

\* the fallback for a missing racer_boat_number column (lines 113-118)
predict_boat_fallback(df) ==
  IF HasCol(df, "racer_boat_number") THEN df
  ELSE IF HasCol(df, "boat") THEN SetCol(df, "racer_boat_number", df.val["boat"])
  ELSE IF HasCol(df, "tei") THEN SetCol(df, "racer_boat_number", df.val["tei"])
  ELSE df

\* the rank and z-score features (lines 156-163)
predict_ranks(df) ==
  LET names ==
        (IF HasCol(df, "racer_exhibition_time")
         THEN <<"exh_time_rank", "exh_time_z">> ELSE <<>>)
        \o (IF HasCol(df, "racer_start_timing")
            THEN <<"exh_st_rank", "exh_st_z">> ELSE <<>>)
  IN  SetCols(df, names,
        [c \in Range(names) |->
           CASE c = "exh_time_rank" -> safe_rank(df.val["racer_exhibition_time"])
             [] c = "exh_time_z" -> zscore(df.val["racer_exhibition_time"])
             [] c = "exh_st_rank" -> safe_rank(df.val["racer_start_timing"])
             [] c = "exh_st_z" -> zscore(df.val["racer_start_timing"])])

\* _to_float(df["racer_boat_number"]).fillna(0), before .astype(int)
lane_values(df) == fillna(to_numeric(df.val["racer_boat_number"]), Zero)

\* (df[col] == i).astype(int) for i = lo..hi, as columns prefix_i
dummies(df, prefix, col, lo, hi) ==
  LET names == SubSeq(prefix, lo + 1, hi + 1)
      iOf(dc) == CHOOSE i \in lo..hi : prefix[i + 1] = dc
  IN  Frame(df.cols \o SelectSeq(names, LAMBDA dc : ~HasCol(df, dc)), df.n,
            [dc \in Range(df.cols) \cup Range(names) |->
               IF dc \in Range(names)
               THEN [r \in 1..df.n |->
                       IF df.val[col][r] = Fin(iOf(dc), 1) THEN One ELSE Zero]
               ELSE df.val[dc]])

lane_names == <<"lane_0", "lane_1", "lane_2", "lane_3", "lane_4", "lane_5", "lane_6">>

wind_dir_names ==
  <<"wind_dir_0", "wind_dir_1", "wind_dir_2", "wind_dir_3", "wind_dir_4",
    "wind_dir_5", "wind_dir_6", "wind_dir_7", "wind_dir_8">>

\* the lane features (lines 166-169)
predict_lanes(df) ==
  IF HasCol(df, "racer_boat_number")
  THEN dummies(SetCol(df, "lane", [r \in 1..df.n |-> Fin(AsInt(lane_values(df)[r]), 1)]),
               lane_names, "lane", 1, 6)
  ELSE df

\* the penalty features as 0/1 indicators of a count above zero
predict_penalties_Indicator(df) ==
  SetCols(df, <<"f_penalty", "l_penalty">>,
    [c \in {"f_penalty", "l_penalty"} |->
       LET count == IF c = "f_penalty" THEN "racer_flying_count" ELSE "racer_late_count"
       IN  IF HasCol(df, count)
           THEN [r \in 1..df.n |->
                   IF ~IsNaN(df.val[count][r]) /\ FLt(Zero, df.val[count][r])
                   THEN One ELSE Zero]
           ELSE Broadcast(df, Zero)])

\* the penalty features (lines 172-180)
predict_penalties(df) ==
  SetCols(df, <<"f_penalty", "l_penalty">>,
    [c \in {"f_penalty", "l_penalty"} |->
       LET count == IF c = "f_penalty" THEN "racer_flying_count" ELSE "racer_late_count"
       IN  IF HasCol(df, count) THEN fillna(df.val[count], Zero)
           ELSE Broadcast(df, Zero)])

\* w.get(key, 0) if w.get(key, 0) is not None else 0; weather None is {}
wget(w, key) == IF key \in DOMAIN w THEN w[key] ELSE Zero

\* int(x) of a finite float
IntOf(x) == Fin(AsInt(x), 1)

\* the weather features (lines 183-193)
predict_weather(df, w) ==
  LET a == SetCols(df,
             <<"wind", "wind_direction", "wave", "weather_code", "temperature",
               "water_temperature">>,
             [wind |-> Broadcast(df, wget(w, "wind")),
              wind_direction |-> Broadcast(df, IntOf(wget(w, "wind_direction"))),
              wave |-> Broadcast(df, wget(w, "wave")),
              weather_code |-> Broadcast(df, IntOf(wget(w, "weather_code"))),
              temperature |-> Broadcast(df, wget(w, "temperature")),
              water_temperature |-> Broadcast(df, wget(w, "water_temperature"))])
  IN  dummies(a, wind_dir_names, "wind_direction", 0, 8)

\* the columns kept (lines 198-206)
predict_keep(df) ==
  SelectCols(df, SelectSeq(df.cols,
    LAMBDA c : c \notin {"racer_name", "race_title", "race_subtitle"} /\ IsNumber(df.val[c])))

\* astype(int) of the lane or int() of a weather entry meets NaN or an infinity
predict_build_raises(dfr, w) ==
  LET df == predict_boat_fallback(dfr)
  IN  \/ HasCol(df, "racer_boat_number") /\ \E r \in 1..df.n : ~IsFinite(lane_values(df)[r])
      \/ ~IsFinite(wget(w, "wind_direction"))
      \/ ~IsFinite(wget(w, "weather_code"))

\* predict.build_features(df_raw, weather) when nothing raises
predict_build_features(dfr, w) ==
  LET a == to_num_cols(predict_boat_fallback(dfr), num_cols)
  IN  final_fill(predict_keep(predict_weather(predict_penalties(predict_lanes(predict_ranks(a))), w)))

\* the caller's df_raw after predict.build_features returned: df =
\* df_raw.copy() is a frame of its own that takes every assignment
predict_df_raw_after(dfr) == dfr

(***************************************************************************)
(* The arguments of one build_features call                                *)
(***************************************************************************)
\* raw cells: numbers, a missing value, +inf, text
RawVals == {Fin(0, 1), Fin(10, 1), Fin(12, 1), NaN, PInf, Str}

\* the raw column that varies
ProbeCols ==
  {"racer_exhibition_time", "racer_start_timing", "racer_flying_count",
   "racer_late_count", "racer_weight", "racer_national_top_1_percent",
   "tenji_taimu", "racer_name"}

\* raw columns that stand for the boat number
BoatLabels == {"racer_boat_number", "teiban", "boat"}

\* df_raw: no rows; the boat numbers 1..K and one raw column of any cells;
\* a single column of any cells under a boat-number label
RawFrames ==
  {Frame(<<"racer_boat_number">>, 0, [c \in {"racer_boat_number"} |-> <<>>])}
  \cup UNION {{Frame(<<"racer_boat_number", c>>, K,
                     [x \in {"racer_boat_number", c} |->
                        IF x = c THEN v ELSE [r \in 1..K |-> Fin(r, 1)]]) :
                 c \in ProbeCols, v \in SeqsOfLen(RawVals, K)} : K \in 1..MaxRows}
  \cup {Frame(<<c>>, Len(v), [x \in {c} |-> v]) :
          c \in BoatLabels, v \in UNION {SeqsOfLen(RawVals, n) : n \in 1..MaxRows}}

Absent == CsvFile("absent", <<>>)

\* what the two candidate paths hold, with the stadium and race_no passed
FeatureCalls ==
  {[files |-> <<Absent, Absent>>, stadium |-> 1, race_no |-> 1],
   [files |-> <<CsvFile("ok", <<"lane", "exh_time_rank", "exh_st_rank", "f_penalty",
                                "l_penalty", "nan", "motor_rank">>), Absent>>,
    stadium |-> 1, race_no |-> 1],
   [files |-> <<CsvFile("unreadable", <<>>),
                CsvFile("ok", <<"racer_boat_number", "racer_exhibition_time",
                                "exh_time_diff", "f_penalty">>)>>,
    stadium |-> 24, race_no |-> 12]}

\* weather: None, a full reading, a reading with an infinite and a NaN entry
Weathers ==
  {<<>>,
   [wind |-> Fin(3, 1), wind_direction |-> Fin(2, 1), wave |-> PInf],
   [wind |-> Fin(3, 1), wind_direction |-> NaN]}

\* no app run
NoAppRun == predict_py = {} /\ models = <<>> /\ ui = <<>>

NoFeatCall ==
  /\ builder = "none"
  /\ df_raw = NoFrame
  /\ stadium = 1
  /\ race_no = 1
  /\ weather = <<>>
  /\ files = <<>>
  /\ feat = NoFrame
  /\ earlier = NoFrame

InitFeat ==
  /\ op = "build_features" /\ NoAppRun
  /\ pc = "call"
  /\ err = ""
  /\ df_raw \in RawFrames
  /\ \/ /\ builder = "features"
        /\ \E c \in FeatureCalls :
             files = c.files /\ stadium = c.stadium /\ race_no = c.race_no
        /\ weather = <<>>
     \/ /\ builder = "predict"
        /\ weather \in Weathers
        /\ files = <<Absent, Absent>> /\ stadium = 1 /\ race_no = 1
  /\ feat = NoFrame /\ earlier = NoFrame
  /\ df_feat = NoFrame /\ pred = <<>> /\ top_n = 1 /\ df_pred = <<>>
  /\ model = NoModel /\ X = NoFrame /\ X2 = NoFrame

\* features.py: if df_raw is None or len(df_raw) == 0: return pd.DataFrame()
FeaturesBuildEmpty ==
  /\ op = "build_features" /\ pc = "call" /\ builder = "features"
  /\ df_raw.n = 0
  /\ feat' = features_build_features(df_raw, stadium, race_no, files)
  /\ df_raw' = features_df_raw_after(df_raw)
  /\ pc' = "done"
  /\ UNCHANGED <<op, err, builder, stadium, race_no, weather, files, earlier, scoreVars, alignVars, appVars>>

\* features.py: build_features on one or more rows
FeaturesBuild ==
  /\ op = "build_features" /\ pc = "call" /\ builder = "features"
  /\ df_raw.n > 0
  /\ feat' = features_build_features(df_raw, stadium, race_no, files)
  /\ df_raw' = features_df_raw_after(df_raw)
  /\ pc' = "done"
  /\ UNCHANGED <<op, err, builder, stadium, race_no, weather, files, earlier, scoreVars, alignVars, appVars>>

\* predict.py: build_features raising in astype(int) or int()
PredictBuildRaise ==
  /\ op = "build_features" /\ pc = "call" /\ builder = "predict"
  /\ predict_build_raises(df_raw, weather)
  /\ pc' = "raised"
  /\ err' = "ValueError"
  /\ UNCHANGED <<op, builder, df_raw, stadium, race_no, weather, files, feat, earlier, scoreVars, alignVars, appVars>>

\* predict.py: build_features returning
PredictBuild ==
  /\ op = "build_features" /\ pc = "call" /\ builder = "predict"
  /\ ~predict_build_raises(df_raw, weather)
  /\ feat' = predict_build_features(df_raw, weather)
  /\ df_raw' = predict_df_raw_after(df_raw)
  /\ pc' = "done"
  /\ UNCHANGED <<op, err, builder, stadium, race_no, weather, files, earlier, scoreVars, alignVars, appVars>>

NextFeat == FeaturesBuildEmpty \/ FeaturesBuild \/ PredictBuildRaise \/ PredictBuild

SpecFeat == InitFeat /\ [][NextFeat]_vars

(***************************************************************************)
(* Two calls of features.build_features with the same arguments            *)
(***************************************************************************)
\* between the calls the files on disk are whatever the environment makes them
FilesChange ==
  /\ op = "build_features" /\ builder = "features" /\ pc = "done"
  /\ files' \in {c.files : c \in FeatureCalls}
  /\ earlier' = feat
  /\ pc' = "call again"
  /\ UNCHANGED <<op, err, builder, df_raw, stadium, race_no, weather, feat, scoreVars, alignVars, appVars>>

\* the second call: the same df_raw, stadium and race_no
FeaturesBuildAgain ==
  /\ op = "build_features" /\ builder = "features" /\ pc = "call again"
  /\ feat' = features_build_features(df_raw, stadium, race_no, files)
  /\ df_raw' = features_df_raw_after(df_raw)
  /\ pc' = "done again"
  /\ UNCHANGED <<op, err, builder, stadium, race_no, weather, files, earlier, scoreVars, alignVars, appVars>>

SpecTwice == InitFeat /\ [][NextFeat \/ FilesChange \/ FeaturesBuildAgain]_vars

(***************************************************************************)
(* predict.py: predict_trifecta                                            *)
(***************************************************************************)
\* boats = df_feat["racer_boat_number"].astype(int).tolist()
Boats(df) == [r \in 1..df.n |-> AsInt(df.val["racer_boat_number"][r])]

\* Clip0 with the clip left out
Clip0_NoClip(x) == x

\* np.clip(p, 0.0, None): the lower bound only; NaN stays NaN
Clip0(x) == IF IsNaN(x) THEN NaN ELSE IF FLt(x, Zero) THEN Zero ELSE x

ClipVec(p) == [i \in DOMAIN p |-> Clip0(p[i])]

\* idx = {b: i for i, b in enumerate(boats)}: a repeated id keeps its last index
Idx(boats, b) == CHOOSE i \in DOMAIN boats :
  boats[i] = b /\ \A j \in DOMAIN boats : boats[j] = b => j <= i

\* the m-th smallest element of S, m counted from 0
Nth(S, m) == CHOOSE x \in S : Cardinality({y \in S : y < x}) = m

NumPerms(K) == IF K < 3 THEN 0 ELSE K * (K - 1) * (K - 2)

\* itertools.permutations(range(K), 3): the r-th triple of positions, in
\* lexicographic order, r counted from 1
PermAt(K, r) ==
  LET i == Nth(1..K, (r - 1) \div ((K - 1) * (K - 2)))
      j == Nth((1..K) \ {i}, ((r - 1) \div (K - 2)) % (K - 1))
      k == Nth((1..K) \ {i, j}, (r - 1) % (K - 2))
  IN  <<i, j, k>>

\* RowIdx taking the entrant id itself as the position in p1, p2, p3
RowIdx_ById(boats, r) ==
  LET t == PermAt(Len(boats), r)
  IN  <<boats[t[1]], boats[t[2]], boats[t[3]]>>

\* the positions the loop body reads of p1, p2, p3 for the r-th triple
RowIdx(boats, r) ==
  LET t == PermAt(Len(boats), r)
  IN  <<Idx(boats, boats[t[1]]), Idx(boats, boats[t[2]]), Idx(boats, boats[t[3]])>>

\* p1[ia], p2[ib] or p3[ic] is out of range for some triple
IndexErrorAt(boats, p) ==
  \E r \in 1..NumPerms(Len(boats)) : \E m \in 1..3 :
    RowIdx(boats, r)[m] > Len(p[m])

\* one row of the loop: (a, b, c, score, p1[ia], p2[ib], p3[ic])
MakeRow(boats, p, r) ==
  LET t == PermAt(Len(boats), r)
      x == RowIdx(boats, r)
  IN  [a |-> boats[t[1]], b |-> boats[t[2]], c |-> boats[t[3]],
       score |-> FMul(FMul(p[1][x[1]], p[2][x[2]]), p[3][x[3]]),
       p1 |-> p[1][x[1]], p2 |-> p[2][x[2]], p3 |-> p[3][x[3]]]

Rows(boats, p) == [r \in 1..NumPerms(Len(boats)) |-> MakeRow(boats, p, r)]

\* sort_values("score", ascending=False): x is placed strictly before y.
\* NaN scores go last (na_position="last").
Before(x, y) ==
  IF IsNaN(x) THEN FALSE ELSE IF IsNaN(y) THEN TRUE ELSE FLt(y, x)

\* The default sort kind is quicksort, which is not stable: rows of equal
\* score come out in an order the numpy build decides.  Heads(rows, rem, n)
\* is every possible first n rows of the sorted frame.
RECURSIVE Heads(_, _, _)
Heads(rows, rem, n) ==
  IF n = 0 \/ rem = {} THEN {<<>>}
  ELSE UNION { {<<rows[r]>> \o t : t \in Heads(rows, rem \ {r}, n - 1)} :
               r \in {x \in rem : \A y \in rem : ~Before(rows[y].score, rows[x].score)} }

\* SortedHead cutting one row late
SortedHead_OffByOne(rows, n) == Heads(rows, DOMAIN rows, n + 1)

\* .sort_values(...).head(int(top_n)).reset_index(drop=True)
SortedHead(rows, n) == Heads(rows, DOMAIN rows, n)

(***************************************************************************)
(* The arguments of one predict_trifecta call                              *)
(***************************************************************************)
RECURSIVE Pow(_, _)
Pow(b, e) == IF e = 0 THEN 1 ELSE b * Pow(b, e - 1)

\* the score model m gives row i when nothing is unusual: 1/2^i, 1/3^i and
\* 1/5^i, so that the products of three of them are pairwise different and
\* equal scores come from the replaced entries
BaseScore(m, i) == Fin(1, Pow(<<2, 3, 5>>[m], i))

\* values a model's predict may return instead
PVals == {Zero, One, Fin(3, 2), Fin(-1, 2), NaN, PInf, NInf}

BaseVec(m, n) == [i \in 1..n |-> BaseScore(m, i)]

BasePreds(K) == <<BaseVec(1, K), BaseVec(2, K), BaseVec(3, K)>>

\* the outputs of the three models for K rows: the base outputs, with at most
\* one entry replaced by a value of PVals or one vector a row short or long
Preds(K) ==
  {BasePreds(K)}
  \cup {[BasePreds(K) EXCEPT ![m][i] = x] : m \in 1..3, i \in 1..K, x \in PVals}
  \cup {[BasePreds(K) EXCEPT ![m] = BaseVec(m, n)] : m \in 1..3, n \in {K - 1, K + 1}}

\* racer_boat_number columns: the ids 1..K ascending, and descending
BoatCols(K) ==
  {[r \in 1..K |-> Fin(r, 1)], [r \in 1..K |-> Fin(K + 1 - r, 1)]}

FeatFrames ==
  {NoFrame}
  \cup {Frame(<<"lane">>, K, [c \in {"lane"} |-> [r \in 1..K |-> Fin(r, 1)]]) : K \in 1..MaxK}
  \cup {Frame(<<"racer_boat_number">>, Len(b), [c \in {"racer_boat_number"} |-> b]) :
          b \in UNION {BoatCols(K) : K \in 1..MaxK}}

\* models as the three _align_features_to_model calls of predict_trifecta
\* see them: declaring no names, or declaring names df_feat has and lacks
ScorerModels ==
  SeqsOfLen({NoModel, ModelObj(TRUE, <<"racer_boat_number", "f1">>, FALSE, <<>>, "absent", <<>>)}, 3)

\* the caller's df_feat after the three _align_features_to_model calls
predict_trifecta_df_feat_after(ms, df) ==
  align_X_after(ms[3], align_X_after(ms[2], align_X_after(ms[1], df)))

Init ==
  /\ op = "predict_trifecta" /\ NoAppRun
  /\ pc = "call"
  /\ df_feat \in FeatFrames
  /\ pred \in Preds(df_feat.n)
  /\ top_n \in 1..MaxTopN
  /\ df_pred = <<>>
  /\ err = ""
  /\ model = NoModel
  /\ X = NoFrame
  /\ X2 = NoFrame
  /\ NoFeatCall

\* if df_feat is None or df_feat.empty: raise ValueError
PredictTrifectaEmpty ==
  /\ op = "predict_trifecta" /\ pc = "call"
  /\ IsEmpty(df_feat)
  /\ pc' = "raised"
  /\ err' = "ValueError"
  /\ UNCHANGED <<op, scoreVars, alignVars, featVars, appVars>>

\* if "racer_boat_number" not in df_feat.columns: raise KeyError
PredictTrifectaNoBoat ==
  /\ op = "predict_trifecta" /\ pc = "call"
  /\ ~IsEmpty(df_feat)
  /\ ~HasCol(df_feat, "racer_boat_number")
  /\ pc' = "raised"
  /\ err' = "KeyError"
  /\ UNCHANGED <<op, scoreVars, alignVars, featVars, appVars>>

\* p1[ia] * p2[ib] * p3[ic] reads past the end of a vector
PredictTrifectaIndexError ==
  /\ op = "predict_trifecta" /\ pc = "call"
  /\ ~IsEmpty(df_feat)
  /\ HasCol(df_feat, "racer_boat_number")
  /\ IndexErrorAt(Boats(df_feat), pred)
  /\ df_feat' \in {predict_trifecta_df_feat_after(ms, df_feat) : ms \in ScorerModels}
  /\ pc' = "raised"
  /\ err' = "IndexError"
  /\ UNCHANGED <<op, pred, top_n, df_pred, alignVars, featVars, appVars>>

PredictTrifectaReturn ==
  /\ op = "predict_trifecta" /\ pc = "call"
  /\ ~IsEmpty(df_feat)
  /\ HasCol(df_feat, "racer_boat_number")
  /\ ~IndexErrorAt(Boats(df_feat), pred)
  /\ \E out \in SortedHead(Rows(Boats(df_feat), <<ClipVec(pred[1]), ClipVec(pred[2]), ClipVec(pred[3])>>), top_n) :
       df_pred' = out
  /\ df_feat' \in {predict_trifecta_df_feat_after(ms, df_feat) : ms \in ScorerModels}
  /\ pc' = "done"
  /\ UNCHANGED <<op, pred, top_n, err, alignVars, featVars, appVars>>

Next ==
  \/ PredictTrifectaEmpty
  \/ PredictTrifectaNoBoat
  \/ PredictTrifectaIndexError
  \/ PredictTrifectaReturn

Spec == Init /\ [][Next]_vars

(***************************************************************************)
(* The arguments of one _align_features_to_model call                      *)
(***************************************************************************)
FeatNames == {"f1", "f2", "f3", "f4"}

NameLists == UNION {SeqsOfLen(FeatNames, n) : n \in 0..MaxNames}

NoRepeat(s) == \A i, j \in DOMAIN s : s[i] = s[j] => i = j

\* the models: one attribute carrying the list, two attributes of which the
\* first probed wins, and the ways of declaring nothing
Models ==
  {ModelObj(TRUE, N, FALSE, <<>>, "absent", <<>>) : N \in NameLists}
  \cup {ModelObj(FALSE, <<>>, TRUE, N, "absent", <<>>) : N \in NameLists}
  \cup {ModelObj(FALSE, <<>>, FALSE, <<>>, "returns", N) : N \in NameLists}
  \cup {ModelObj(TRUE, N, FALSE, <<>>, "returns", <<"f4">>) : N \in NameLists}
  \cup {ModelObj(FALSE, <<>>, FALSE, <<>>, f, <<>>) : f \in {"absent", "attribute", "raises"}}

\* the cell of column c in row r: different for every column and row
CellOf(c, r) ==
  Fin(r + 10 * (CHOOSE i \in 1..4 : <<"f1", "f2", "f3", "f4">>[i] = c), 1)

\* frames of 1..MaxK rows whose columns are up to MaxCols feature columns
AlignFrames ==
  {Frame(cs, K, [c \in Range(cs) |-> [r \in 1..K |-> CellOf(c, r)]]) :
     cs \in {s \in UNION {SeqsOfLen(FeatNames, n) : n \in 0..MaxCols} : NoRepeat(s)},
     K \in 1..MaxK}

InitAlign ==
  /\ op = "align" /\ NoAppRun
  /\ pc = "call"
  /\ err = ""
  /\ model \in Models
  /\ X \in AlignFrames
  /\ X2 = NoFrame
  /\ df_feat = NoFrame
  /\ pred = <<>>
  /\ top_n = 1
  /\ df_pred = <<>>
  /\ NoFeatCall

\* names is None or empty: return X
AlignPassThrough ==
  /\ op = "align" /\ pc = "call"
  /\ Falsy(get_model_feature_names(model))
  /\ X2' = align_features_to_model(model, X)
  /\ X' = align_X_after(model, X)
  /\ pc' = "done"
  /\ UNCHANGED <<op, err, model, scoreVars, featVars, appVars>>

\* X2 = X.copy(); add the missing names; return X2[names]
AlignToNames ==
  /\ op = "align" /\ pc = "call"
  /\ ~Falsy(get_model_feature_names(model))
  /\ X2' = align_features_to_model(model, X)
  /\ X' = align_X_after(model, X)
  /\ pc' = "done"
  /\ UNCHANGED <<op, err, model, scoreVars, featVars, appVars>>

NextAlign == AlignPassThrough \/ AlignToNames

SpecAlign == InitAlign /\ [][NextAlign]_vars

(***************************************************************************)
(* One call of either a feature builder or predict_trifecta                *)
(***************************************************************************)
SpecRows == (InitFeat \/ Init) /\ [][NextFeat \/ Next]_vars

(***************************************************************************)
(* app.py: one run of the script                                           *)
(***************************************************************************)
\* the functions src/predict.py defines
predict_src ==
  {"_to_float", "_safe_rank", "_zscore", "_get_model_feature_names",
   "_align_features_to_model", "_predict_score_per_boat", "build_features",
   "predict_trifecta"}

\* from predict import load_models, predict_trifecta
app_imports == {"load_models", "predict_trifecta"}

\* def predict_trifecta(model1, model2, model3, df_feat, top_n=10)
predict_trifecta_params == <<"model1", "model2", "model3", "df_feat", "top_n">>
predict_trifecta_defaults == {"top_n"}

\* predict_trifecta(model1, model2, model3, df_feat=..., df_raw=..., top_n=...)
app_call_kwargs == {"df_feat", "df_raw", "top_n"}

\* Python binds a call of npos positional arguments and the keywords kw to
\* the parameters; when it cannot, the call raises TypeError
Binds(params, defaults, npos, kw) ==
  /\ npos <= Len(params)
  /\ \A k \in kw : \E i \in (npos + 1)..Len(params) : params[i] = k
  /\ \A i \in (npos + 1)..Len(params) : params[i] \in kw \cup defaults

\* every way a call predict_trifecta(model1, model2, model3, df, n) ends,
\* the models returning p
predict_trifecta_call(df, p, n) ==
  IF IsEmpty(df) THEN {[err |-> "ValueError", out |-> <<>>]}
  ELSE IF ~HasCol(df, "racer_boat_number") THEN {[err |-> "KeyError", out |-> <<>>]}
  ELSE IF IndexErrorAt(Boats(df), p) THEN {[err |-> "IndexError", out |-> <<>>]}
  ELSE {[err |-> "", out |-> o] :
          o \in SortedHead(Rows(Boats(df), <<ClipVec(p[1]), ClipVec(p[2]), ClipVec(p[3])>>), n)}

\* model1 is None or model2 is None or model3 is None, taken for model1 alone
models_missing_OnlyFirst(ms) == ~ms[1]

\* model1 is None or model2 is None or model3 is None
models_missing(ms) == \E i \in 1..3 : ~ms[i]

\* df_raw is None or df_raw.empty, taken for None alone
fetch_empty_NoneOnly(dfr) == FALSE

\* df_raw is None or df_raw.empty
fetch_empty(dfr) == IsEmpty(dfr)

\* what fetch_race_json returns: pd.DataFrame() when the race is not in the
\* programs, else the entrants sorted by racer_boat_number, with the
\* exhibition time of the previews
FetchedTimes == {Fin(10, 1), Fin(12, 1), NaN}

Fetched ==
  {NoFrame}
  \cup UNION {{Frame(<<"racer_boat_number", "racer_exhibition_time">>, K,
                     [x \in {"racer_boat_number", "racer_exhibition_time"} |->
                        IF x = "racer_boat_number" THEN [r \in 1..K |-> Fin(r, 1)] ELSE v]) :
                 v \in SeqsOfLen(FetchedTimes, K)} : K \in 1..MaxRows}

\* the slider: min_value=5
MinTopN == 5

\* predict.py as it is under src/, or with a load_models beside it
InitApp ==
  /\ op = "app"
  /\ pc = "import"
  /\ predict_py \in {predict_src, predict_src \cup {"load_models"}}
  /\ models = <<>>
  /\ ui = <<>>
  /\ err = ""
  /\ builder = "features"
  /\ df_raw = NoFrame
  /\ \E c \in FeatureCalls :
       files = c.files /\ stadium = c.stadium /\ race_no = c.race_no
  /\ weather = <<>>
  /\ feat = NoFrame /\ earlier = NoFrame
  /\ df_feat = NoFrame /\ pred = <<>> /\ df_pred = <<>>
  /\ top_n \in MinTopN..MaxTopN
  /\ model = NoModel /\ X = NoFrame /\ X2 = NoFrame

\* from predict import load_models, predict_trifecta: ImportError ends the script
AppImport ==
  /\ op = "app" /\ pc = "import"
  /\ IF app_imports \subseteq predict_py
       THEN pc' = "load_models" /\ ui' = ui
       ELSE pc' = "stopped" /\ ui' = Append(ui, "ImportError")
  /\ UNCHANGED <<op, err, predict_py, models, scoreVars, alignVars, featVars>>

\* load_models(): model loading is outside the core; each of the three
\* models comes back loaded or as None
load_models == SeqsOfLen(BOOLEAN, 3)

\* model1, model2, model3, model_info = load_models()
AppLoadModels ==
  /\ op = "app" /\ pc = "load_models"
  /\ models' \in load_models
  /\ pc' = "button"
  /\ UNCHANGED <<op, err, predict_py, ui, scoreVars, alignVars, featVars>>

\* fetch_race_json raises: st.error, st.stop()
AppFetchRaise ==
  /\ op = "app" /\ pc = "button"
  /\ ui' = ui \o <<"fetch_race_json", "error: fetch failed">>
  /\ pc' = "stopped"
  /\ UNCHANGED <<op, err, predict_py, models, scoreVars, alignVars, featVars>>

\* fetch_race_json returns; an empty df_raw: st.error, st.stop()
AppFetch ==
  /\ op = "app" /\ pc = "button"
  /\ df_raw' \in Fetched
  /\ IF fetch_empty(df_raw')
       THEN ui' = ui \o <<"fetch_race_json", "error: no data">> /\ pc' = "stopped"
       ELSE ui' = Append(ui, "fetch_race_json") /\ pc' = "features"
  /\ UNCHANGED <<op, err, predict_py, models, builder, stadium, race_no, weather, files,
                 feat, earlier, scoreVars, alignVars>>

\* df_feat = build_features(df_raw, stadium=..., race_no=...); an empty
\* df_feat: st.error, st.stop()
AppFeatures ==
  /\ op = "app" /\ pc = "features"
  /\ feat' = features_build_features(df_raw, stadium, race_no, files)
  /\ df_raw' = features_df_raw_after(df_raw)
  /\ IF IsEmpty(feat')
       THEN ui' = ui \o <<"build_features", "error: no features">> /\ pc' = "stopped"
       ELSE ui' = Append(ui, "build_features") /\ pc' = "models"
  /\ UNCHANGED <<op, err, predict_py, models, builder, stadium, race_no, weather,
                 files, earlier, scoreVars, alignVars>>

\* a model is None: st.error, st.stop()
AppNoModels ==
  /\ op = "app" /\ pc = "models"
  /\ models_missing(models)
  /\ ui' = Append(ui, "error: models not loaded")
  /\ pc' = "stopped"
  /\ UNCHANGED <<op, err, predict_py, models, scoreVars, alignVars, featVars>>

\* df_pred = predict_trifecta(...) in try/except Exception: st.error and
\* st.stop(), else the ranking is shown
AppPredict ==
  /\ op = "app" /\ pc = "models"
  /\ ~models_missing(models)
  /\ \E o \in (IF Binds(predict_trifecta_params, predict_trifecta_defaults, 3, app_call_kwargs)
                 THEN predict_trifecta_call(feat, BasePreds(feat.n), top_n)
                 ELSE {[err |-> "TypeError", out |-> <<>>]}) :
       /\ df_pred' = o.out
       /\ IF o.err # ""
            THEN ui' = ui \o <<"predict_trifecta", "error: prediction failed">> /\ pc' = "stopped"
            ELSE ui' = ui \o <<"predict_trifecta", "ranking">> /\ pc' = "done"
  /\ UNCHANGED <<op, err, predict_py, models, df_feat, pred, top_n, alignVars, featVars>>

NextApp ==
  \/ AppImport
  \/ AppLoadModels
  \/ AppFetchRaise
  \/ AppFetch
  \/ AppFeatures
  \/ AppNoModels
  \/ AppPredict

SpecApp == InitApp /\ [][NextApp]_vars

\* calls of build_features by any caller, and the runs of app.py
SpecBuildApp == (InitFeat \/ InitApp) /\ [][NextFeat \/ NextApp]_vars

\* one call of any of the three pipeline operations
SpecCalls == (InitFeat \/ InitAlign \/ Init) /\ [][NextFeat \/ NextAlign \/ Next]_vars

(***************************************************************************)
(* Claims about predict_trifecta                                           *)
(***************************************************************************)
Min(a, b) == IF a < b THEN a ELSE b

UniqueIds(boats) == \A i, j \in DOMAIN boats : boats[i] = boats[j] => i = j

\* the call passed the two argument checks and reached the models
Scored == ~IsEmpty(df_feat) /\ HasCol(df_feat, "racer_boat_number")

LensMatch == \A m \in 1..3 : Len(pred[m]) = df_feat.n

\* C1: for K >= 3 entrants with unique ids and top_n >= 1, predict_trifecta
\* (given one model output per entrant) returns exactly
\* min(top_n, K*(K-1)*(K-2)) triples, and the three ids of every returned
\* triple are pairwise distinct.
C1_CountAndDistinct ==
  (Scored /\ df_feat.n >= 3 /\ UniqueIds(Boats(df_feat)) /\ top_n >= 1) =>
    /\ LensMatch => pc # "raised"
    /\ pc = "done" =>
         /\ Len(df_pred) = Min(top_n, df_feat.n * (df_feat.n - 1) * (df_feat.n - 2))
         /\ \A r \in DOMAIN df_pred :
              /\ df_pred[r].a # df_pred[r].b
              /\ df_pred[r].a # df_pred[r].c
              /\ df_pred[r].b # df_pred[r].c

\* a call that returned every triple of a 3-entrant race, top_n being larger
C1_Witness ==
  /\ pc = "done" /\ Scored /\ df_feat.n = 3 /\ UniqueIds(Boats(df_feat))
  /\ top_n > 6 /\ Len(df_pred) = 6

\* the positions (i, j, k) of a returned row's entrants in df_feat
PosOf(row) ==
  <<Idx(Boats(df_feat), row.a), Idx(Boats(df_feat), row.b), Idx(Boats(df_feat), row.c)>>

LexLt(s, t) ==
  \/ s[1] < t[1]
  \/ s[1] = t[1] /\ s[2] < t[2]
  \/ s[1] = t[1] /\ s[2] = t[2] /\ s[3] < t[3]

\* C2: the returned list is sorted by score descending, and two triples of
\* exactly equal score appear in ascending lexicographic order of their
\* entrant indices (i, j, k).
C2_SortedWithTieBreak ==
  (pc = "done" /\ UniqueIds(Boats(df_feat))) =>
    \A r \in DOMAIN df_pred : \A q \in DOMAIN df_pred :
      r < q =>
        /\ ~Before(df_pred[q].score, df_pred[r].score)
        /\ df_pred[r].score = df_pred[q].score => LexLt(PosOf(df_pred[r]), PosOf(df_pred[q]))

\* c of the claim: clip to [0, 1], NaN and infinite values to 0
ClipUnit(x) ==
  IF ~IsFinite(x) THEN Zero
  ELSE IF x.n < 0 THEN Zero
  ELSE IF x.n > x.d THEN One ELSE x

InUnit(x) == IsFinite(x) /\ x.n >= 0 /\ x.n <= x.d

\* the model outputs a returned row was computed from
Inputs(row) ==
  LET x == PosOf(row) IN <<pred[1][x[1]], pred[2][x[2]], pred[3][x[3]]>>

LowerClip(x) ==
  CASE x.k = "ninf" -> Zero
    [] x.k = "fin" /\ x.n < 0 -> Zero
    [] OTHER -> x

C4_FewEntrantsRaise ==
  (Scored /\ df_feat.n < 3 /\ LensMatch) => pc # "done"

\* C5: if any of the three model output vectors has a length different from
\* the number of entrants (shorter or longer), predict_trifecta fails and
\* returns no ranking.  Stated for the races of 3 or more entrants, which
\* have a ranking to return.
C5_LengthMismatchRaises ==
  (Scored /\ df_feat.n >= 3 /\ ~LensMatch) => pc # "done"

(***************************************************************************)
(* Claims about _align_features_to_model                                   *)
(***************************************************************************)
\* C6: for a model declaring a non-empty feature-name list N, the returned
\* matrix has the rows of X in the same order and columns exactly N in N's
\* order: a name of N present in X keeps X's values, a name of N absent from
\* X is 0.0 in every row, and a column of X not in N is absent.
C6_AlignedToNames ==
  LET N == get_model_feature_names(model)
  IN  (pc = "done" /\ ~N.none /\ N.names # <<>>) =>
        /\ X2.n = X.n
        /\ X2.cols = N.names
        /\ DOMAIN X2.val = Range(N.names)
        /\ \A c \in Range(N.names) : \A r \in 1..X.n :
             X2.val[c][r] = IF c \in Range(X.cols) THEN X.val[c][r] ELSE Zero

\* the spec's example: the model declares [f1, f2, f3], X holds [f1, f4]
C6_Witness ==
  /\ pc = "done"
  /\ get_model_feature_names(model) = Some(<<"f1", "f2", "f3">>)
  /\ X.cols = <<"f1", "f4">>
  /\ X2.cols = <<"f1", "f2", "f3">>

\* C7: when the model exposes no declared feature-name list (none of
\* feature_names_in_, feature_name_, feature_name() is available, or
\* feature_name() fails), the full matrix is returned unchanged and no error
\* is raised.
C7_PassThrough ==
  (pc # "call" /\ ~model.has_fni /\ ~model.has_fn_ /\ model.fn # "returns") =>
    /\ pc = "done"
    /\ err = ""
    /\ X2 = X

\* a model whose feature_name() raises, given a frame with columns
C7_Witness ==
  /\ pc = "done"
  /\ ~model.has_fni /\ ~model.has_fn_ /\ model.fn = "raises"
  /\ X.cols # <<>>
  /\ X2 = X

(***************************************************************************)
(* Claims about build_features                                             *)
(***************************************************************************)
\* the raw column a derived feature is computed from, made numeric, as the
\* builder that ran finds it (features.py renames the Japanese labels first)
SourceOf(label) ==
  LET x == IF builder = "features" THEN apply_rename_map(df_raw) ELSE df_raw
  IN  IF HasCol(x, label) THEN to_numeric(x.val[label])
      ELSE [r \in 1..df_raw.n |-> NaN]

\* a ranks before b when a missing value counts as larger than every present one
RanksBefore(a, b) == ~IsNaN(a) /\ (IsNaN(b) \/ FLt(a, b))

RankCols == {<<"exh_time_rank", "racer_exhibition_time">>,
             <<"exh_st_rank", "racer_start_timing">>}

\* C8: every rank feature output by build_features (exh_time_rank,
\* exh_st_rank) equals, for each entrant, 1 + the number of entrants with a
\* strictly smaller source value, a missing source value counting as larger
\* than every present value; so no rank is undefined or 0, also when every
\* entrant's value is missing.
C8_RankMissingLast ==
  pc = "done" =>
    \A rc \in RankCols :
      HasCol(feat, rc[1]) =>
        \A r \in 1..feat.n :
          LET v == SourceOf(rc[2])
          IN  feat.val[rc[1]][r] =
                Fin(1 + Cardinality({q \in 1..feat.n : RanksBefore(v[q], v[r])}), 1)

IsNumberCell(x) == x.k \in {"fin", "root"}

\* C9: after build_features, every feature value of every entrant row is a
\* finite number: no output cell is missing, NaN, +infinity or -infinity,
\* whatever raw attributes were missing or unparsable in the input.
C9_AllFinite ==
  pc = "done" =>
    /\ DOMAIN feat.val = Range(feat.cols)
    /\ \A c \in Range(feat.cols) :
         /\ DOMAIN feat.val[c] = 1..feat.n
         /\ \A r \in 1..feat.n : IsNumberCell(feat.val[c][r])

\* a raw column with a missing or infinite cell is output, and that cell is 0
C9_Witness ==
  /\ pc = "done"
  /\ \E c \in Range(df_raw.cols) \cap Range(feat.cols) :
       \E r \in 1..feat.n :
         df_raw.val[c][r].k \in {"nan", "pinf"} /\ feat.val[c][r] = Zero

PenaltyCols == {<<"f_penalty", "racer_flying_count">>,
                <<"l_penalty", "racer_late_count">>}

\* C10 as stated: f_penalty and l_penalty take only the values 0 and 1 for
\* every entrant: 1 when the entrant's fault count (racer_flying_count, resp.
\* racer_late_count) is greater than zero, 0 when the count is zero or missing.
C10_PenaltyIndicator ==
  pc = "done" =>
    \A pn \in PenaltyCols :
      HasCol(feat, pn[1]) =>
        \A r \in 1..feat.n :
          LET count == SourceOf(pn[2])[r]
          IN  feat.val[pn[1]][r] =
                IF ~IsNaN(count) /\ FLt(Zero, count) THEN One ELSE Zero

\* C10 as the code has it: f_penalty and l_penalty equal the entrant's fault
\* count itself when the count is a finite number, and 0 when the count is
\* missing, unparsable or infinite, or its column is absent.
C10_PenaltyIsCount ==
  pc = "done" =>
    \A pn \in PenaltyCols :
      HasCol(feat, pn[1]) =>
        \A r \in 1..feat.n :
          LET count == SourceOf(pn[2])[r]
          IN  feat.val[pn[1]][r] = IF IsFinite(count) THEN count ELSE Zero

\* an entrant with a fault count above 1 carries that count as its penalty
C10_Witness ==
  /\ pc = "done"
  /\ \E pn \in PenaltyCols :
       /\ HasCol(feat, pn[1])
       /\ HasCol(df_raw, pn[2])
       /\ \E r \in 1..feat.n :
            /\ df_raw.val[pn[2]][r] = Fin(12, 1)
            /\ feat.val[pn[1]][r] = Fin(12, 1)

ZCols == {<<"exh_time_z", "racer_exhibition_time">>,
          <<"exh_st_z", "racer_start_timing">>}

\* every entrant has the same present value, or there is a single entrant,
\* or every value is missing
NoSpread(v) ==
  \/ \A r \in DOMAIN v : ~IsNaN(v[r]) /\ v[r] = v[1]
  \/ Len(v) = 1
  \/ \A r \in DOMAIN v : IsNaN(v[r])

\* C11: when all entrants share an identical value of a raw attribute, or the
\* standard deviation is undefined (a single entrant, or every value
\* missing), the z-score feature computed by _zscore is 0.0 for every entrant.
C11_NoSpreadZeroZ ==
  (pc = "done" /\ builder = "predict") =>
    \A zc \in ZCols :
      (HasCol(df_raw, zc[2]) /\ NoSpread(SourceOf(zc[2]))) =>
        \A r \in 1..feat.n : feat.val[zc[1]][r] = Zero

(***************************************************************************)
(* Claims about the rows and their order                                   *)
(***************************************************************************)
\* a raw cell as the final fill leaves it
FilledCell(v) == IF IsFinite(v) THEN v ELSE Zero

\* build_features returned one row per input row, and every raw column it
\* kept has, row by row, the raw cells (made numeric and filled)
RowsKept ==
  (op = "build_features" /\ pc = "done") =>
    /\ feat.n = df_raw.n
    /\ LET x == IF builder = "features" THEN apply_rename_map(df_raw) ELSE df_raw
       IN  \A c \in Range(x.cols) \cap Range(feat.cols) :
             \A r \in 1..feat.n : feat.val[c][r] = FilledCell(x.val[c][r])

\* the row of df_feat whose entrant id is b
RowOfId(b) == CHOOSE r \in 1..df_feat.n : Boats(df_feat)[r] = b

\* every returned triple carries, in each position, the model output for the
\* row of the entrant reported in that position
ScoresOfReportedRows ==
  (op = "predict_trifecta" /\ pc = "done" /\ UniqueIds(Boats(df_feat))) =>
    \A r \in DOMAIN df_pred :
      /\ df_pred[r].p1 = LowerClip(pred[1][RowOfId(df_pred[r].a)])
      /\ df_pred[r].p2 = LowerClip(pred[2][RowOfId(df_pred[r].b)])
      /\ df_pred[r].p3 = LowerClip(pred[3][RowOfId(df_pred[r].c)])

\* C12 as stated: the feature rows output by build_features are the entrants
\* of its input, one row per entrant, in ascending racer_boat_number order,
\* and the scorer uses for each position of a triple the model output of the
\* row of the entrant reported there.
C12_RowsAscendingById ==
  /\ RowsKept
  /\ (op = "build_features" /\ pc = "done" /\ HasCol(feat, "racer_boat_number")) =>
       \A r \in 1..feat.n : \A q \in 1..feat.n :
         r < q => FLe(feat.val["racer_boat_number"][r], feat.val["racer_boat_number"][q])
  /\ ScoresOfReportedRows

\* C12 as the code has it: build_features returns one row per input row in
\* the order of the input rows, without sorting; the scorer finds the row of
\* an entrant by its id, so for unique ids every position of a triple carries
\* the model output of the row of the entrant reported there.
C12_RowsInInputOrder == RowsKept /\ ScoresOfReportedRows

\* build_features given the ids 12, 10 returned them in that order
C12_Witness ==
  /\ op = "build_features" /\ pc = "done"
  /\ df_raw.cols = <<"racer_boat_number">>
  /\ df_raw.val["racer_boat_number"] = <<Fin(12, 1), Fin(10, 1)>>
  /\ HasCol(feat, "racer_boat_number")
  /\ feat.val["racer_boat_number"] = <<Fin(12, 1), Fin(10, 1)>>

(***************************************************************************)
(* Claims about what a call depends on                                     *)
(***************************************************************************)
\* C13: two calls of build_features with equal entrant rows (and equal
\* stadium and race_no) return equal feature frames, whatever the state of
\* anything outside the arguments (files such as feature_names.csv, earlier
\* calls).
C13_SameArgsSameFrame ==
  pc = "done again" => feat = earlier

(***************************************************************************)
(* Claims about the run of app.py                                          *)
(***************************************************************************)
\* the fetch of an app run returned (it did not raise)
FetchReturned ==
  op = "app" /\ "fetch_race_json" \in Range(ui) /\ "error: fetch failed" \notin Range(ui)

\* C14: build_features called with no entrant rows returns an empty result
\* and raises no error; the caller, given no entrants, reports "no data" and
\* attempts no scoring for that request.
C14_EmptyInEmptyOut ==
  /\ (op = "build_features" /\ builder = "features" /\ pc # "call" /\ df_raw.n = 0)
       => (pc = "done" /\ err = "" /\ IsEmpty(feat))
  /\ (FetchReturned /\ IsEmpty(df_raw))
       => (pc = "stopped" /\ ui = <<"fetch_race_json", "error: no data">>)
  /\ (op = "app" /\ "build_features" \in Range(ui) /\ IsEmpty(feat))
       => (pc = "stopped" /\ "predict_trifecta" \notin Range(ui))

C14_Witness ==
  op = "build_features" /\ builder = "features" /\ pc = "done" /\ df_raw.n = 0 /\ IsEmpty(feat)

\* an app run given no entrants has stopped with the message
C14_AppNoData ==
  FetchReturned /\ IsEmpty(df_raw) /\ pc = "stopped"

\* the messages that end a run
ErrorMsgs ==
  {"ImportError", "error: fetch failed", "error: no data", "error: no features",
   "error: models not loaded", "error: prediction failed"}

\* C16: in one run of the app pipeline a stage is invoked only if every
\* earlier stage completed without reporting an error or an empty result:
\* after a fetch failure or an empty fetch no feature-build happens, after an
\* empty feature frame or unloaded models predict_trifecta is never called,
\* and after a prediction error no ranking is displayed.
C16_StageOnlyAfterSuccess ==
  op = "app" =>
    /\ \A i \in DOMAIN ui : ui[i] \in ErrorMsgs => i = Len(ui)
    /\ "build_features" \in Range(ui) =>
          (FetchReturned /\ ~IsEmpty(df_raw) /\ ui[1] = "fetch_race_json")
    /\ "predict_trifecta" \in Range(ui) =>
          /\ SubSeq(ui, 1, 3) = <<"fetch_race_json", "build_features", "predict_trifecta">>
          /\ ~IsEmpty(feat)
          /\ \A i \in 1..3 : models[i]
    /\ "ranking" \in Range(ui) =>
          ui = <<"fetch_race_json", "build_features", "predict_trifecta", "ranking">>

\* a run that reached the scoring stage and ended in the prediction error
C16_Witness ==
  /\ op = "app" /\ pc = "stopped"
  /\ ui = <<"fetch_race_json", "build_features", "predict_trifecta", "error: prediction failed">>

\* C17: every non-empty feature frame returned by features.build_features
\* contains the column racer_boat_number, whether or not a feature_names.csv
\* list is applied, so the precondition of predict_trifecta holds whenever
\* the app reaches the scoring stage.
C17_BoatNumberKept ==
  /\ (op = "build_features" /\ builder = "features" /\ pc = "done" /\ ~IsEmpty(feat))
       => HasCol(feat, "racer_boat_number")
  /\ (op = "app" /\ "predict_trifecta" \in Range(ui))
       => HasCol(feat, "racer_boat_number")

\* a finished run in which the fetch returned rows, the feature frame is
\* non-empty and carries racer_boat_number, and the three models are loaded
GoodRunEnded ==
  /\ op = "app" /\ pc \in {"stopped", "done"}
  /\ FetchReturned /\ ~IsEmpty(df_raw)
  /\ "build_features" \in Range(ui) /\ ~IsEmpty(feat) /\ HasCol(feat, "racer_boat_number")
  /\ models # <<>> /\ \A i \in 1..3 : models[i]

\* C18: the app's use of predict.py matches what predict.py defines: the
\* names app.py imports from predict exist there (the import does not fail)
\* and the keyword arguments passed to predict_trifecta are parameters of
\* it; hence a run in which the fetch returns non-empty data, the feature
\* frame is non-empty and carries racer_boat_number, and all three models
\* are loaded ends with the ranked triples displayed, not in the
\* prediction-failure error.
C18_AppMatchesPredict ==
  /\ op = "app" => "ImportError" \notin Range(ui)
  /\ GoodRunEnded => (pc = "done" /\ ui[Len(ui)] = "ranking")

====
